---- MODULE Spec2Model ----
(***************************************************************************)
(* Model of the image-weaving editor (src/components/ImageEditor.tsx):     *)
(* the three numeric parameters kept in editorState, the input-change      *)
(* handler that clamps them, and processAndDownload, the asynchronous      *)
(* pipeline scale -> slice -> vertical merge (odd slices flipped) ->       *)
(* horizontal repeat -> download.                                          *)
(*                                                                         *)
(* JavaScript numbers are modelled in fixed point: a number n is the       *)
(* integer n * Unit (tenths).  The input strings below carry at most one   *)
(* fractional digit, so every value the model computes is exact.  A pixel  *)
(* is the pair <<x, y>> of the source pixel it was copied from, or White.  *)
(***************************************************************************)
EXTENDS Integers, Sequences, FiniteSets, TLC

\* ---------------------------------------------------------------- bounds
MaxW == 2      \* source images are 1..MaxW pixels wide
MaxH == 2      \* source images are 1..MaxH pixels high

\* ------------------------------------------------------------- JS numbers
Unit == 10     \* fixed-point denominator: number n is stored as n * Unit

Floor(t) == t \div Unit                  \* Math.floor / canvas size coercion
Ceil(t) == (t + Unit - 1) \div Unit      \* iterations of for (i = 0; i < t; i++)

\* ------------------------------------------------------------- parseFloat
Digits == {"0", "1", "2", "3", "4", "5", "6", "7", "8", "9"}

DigitVal(c) ==
  CASE c = "0" -> 0 [] c = "1" -> 1 [] c = "2" -> 2 [] c = "3" -> 3
    [] c = "4" -> 4 [] c = "5" -> 5 [] c = "6" -> 6 [] c = "7" -> 7
    [] c = "8" -> 8 [] c = "9" -> 9

\* the text the input element hands to the handler (event.target.value)
InputValues ==
  { <<>>, <<"a">>, <<"0">>, <<"-", "2">>, <<"2">>, <<"2", ".", "5">> }

\* index of the first character at or after position p that is no digit
RECURSIVE DigitsEnd(_, _)
DigitsEnd(s, p) ==
  IF p <= Len(s) /\ s[p] \in Digits THEN DigitsEnd(s, p + 1) ELSE p

\* value of the digit string s[from .. to-1]
RECURSIVE IntOf(_, _, _)
IntOf(s, from, to) ==
  IF from >= to THEN 0
  ELSE IntOf(s, from, to - 1) * 10 + DigitVal(s[to - 1])

NaN == [nan |-> TRUE, val |-> 0]

\* parseFloat: optional sign, digits, optional "." and digits; the longest
\* such prefix is converted, and a prefix without any digit gives NaN
parseFloat(s) ==
  LET neg == Len(s) >= 1 /\ s[1] = "-"
      p0 == IF neg \/ (Len(s) >= 1 /\ s[1] = "+") THEN 2 ELSE 1
      p1 == DigitsEnd(s, p0)
      dot == p1 <= Len(s) /\ s[p1] = "."
      p2 == IF dot THEN DigitsEnd(s, p1 + 1) ELSE p1
      frac == IF dot /\ p2 > p1 + 1 THEN DigitVal(s[p1 + 1]) ELSE 0
      mag == IntOf(s, p0, p1) * Unit + frac
  IN  IF p1 = p0 /\ ~(dot /\ p2 > p1 + 1) THEN NaN
      ELSE [nan |-> FALSE, val |-> IF neg THEN 0 - mag ELSE mag]

\* a clamp that keeps the magnitude of a negative number
ClampAbs(n) ==
  IF n.nan \/ n.val = 0 THEN Unit ELSE IF n.val < 0 THEN 0 - n.val ELSE n.val

\* numValue > 0 ? numValue : 1      (NaN > 0 is false)
Clamp(n) == IF ~n.nan /\ n.val > 0 THEN n.val ELSE Unit

Ids == {"scale", "numSplits", "horizontalRepeat"}

\* ---------------------------------------------------------------- canvases
White == <<-1, -1>>
Transparent == <<-2, -2>>

Cells(w, h) == (0 .. w - 1) \X (0 .. h - 1)

NoCanvas == [w |-> -1, h |-> -1, px |-> [c \in {} |-> White]]

\* createCanvas(width, height): the size attributes truncate to integers;
\* the bitmap is filled white when a 2d context was obtained (ctx), and is
\* left transparent when getContext returned null
createCanvas(width, height, ctx) ==
  [w |-> Floor(width), h |-> Floor(height),
   px |-> [c \in Cells(Floor(width), Floor(height)) |->
             IF ctx THEN White ELSE Transparent]]

HasNoPixels(c) == c.w = 0 \/ c.h = 0

\* canvas.toDataURL(): "data:," for a bitmap without pixels, else the PNG
EmptyURL == [empty |-> TRUE, w |-> 0, h |-> 0, px |-> [c \in {} |-> White]]
toDataURL(c) ==
  IF HasNoPixels(c) THEN EmptyURL
  ELSE [empty |-> FALSE, w |-> c.w, h |-> c.h, px |-> c.px]

\* the decoded source image: w x h pixels, each its own colour
SourceImage(w, h) == [w |-> w, h |-> h, px |-> [c \in Cells(w, h) |-> c]]

\* ctx.drawImage(image, 0, 0, dw, dh) with dh = image.h: the image is
\* stretched horizontally to dw (nearest source column of each pixel centre)
drawImage5(dst, image, dw) ==
  [dst EXCEPT !.px =
     [c \in Cells(dst.w, dst.h) |->
        IF c[1] * Unit + (Unit \div 2) < dw /\ c[2] < image.h
        THEN image.px[<<((c[1] * Unit + (Unit \div 2)) * image.w) \div dw, c[2]>>]
        ELSE dst.px[c]]]

\* ctx.drawImage(image, sx, 0, sw, sh, 0, 0, sw, sh): an unscaled copy of the
\* source rectangle, clipped to the source bitmap; nothing is painted for an
\* empty rectangle
drawImage9(dst, image, sx, sw, sh) ==
  [dst EXCEPT !.px =
     [c \in Cells(dst.w, dst.h) |->
        IF c[1] < sw /\ c[2] < sh /\ sx + c[1] < image.w /\ c[2] < image.h
        THEN image.px[<<sx + c[1], c[2]>>]
        ELSE dst.px[c]]]

\* the 2d context's current transform, restricted to what the editor uses:
\* device y = ty + sy * user y
Identity == [ty |-> 0, sy |-> 1]
translate(t, dy) == [t EXCEPT !.ty = t.ty + t.sy * dy]
scaleFlip(t) == [t EXCEPT !.sy = 0 - t.sy]

\* device row covered by image row r drawn at user offset dy under t
DeviceRow(t, dy, r) ==
  IF t.sy = 1 THEN t.ty + dy + r ELSE t.ty - (dy + r) - 1

\* ctx.drawImage(image, dx, dy) under the transform t, clipped to dst
drawImage3(dst, image, t, dx, dy) ==
  [dst EXCEPT !.px =
     [c \in Cells(dst.w, dst.h) |->
        LET hit == {r \in 0 .. image.h - 1 : DeviceRow(t, dy, r) = c[2]}
        IN  IF c[1] - dx \in 0 .. image.w - 1 /\ hit # {}
            THEN image.px[<<c[1] - dx, CHOOSE r \in hit : TRUE>>]
            ELSE dst.px[c]]]

\* ------------------------------------------------------------------ state
VARIABLES
  imageFile,      \* the uploaded file: whether it decodes, and its size
  editorState,    \* [scale, numSplits, horizontalRepeat], fixed point
  pc,             \* where the invocation of processAndDownload stands
  params,         \* the editorState the invocation's closure captured
  scaledCanvas,   \* step 1
  slices,         \* step 2: the data URLs pushed, in order
  verticalCanvas, \* step 3
  transform,      \* current transform of verticalCtx
  loaded,         \* indices of slices whose onload callback has run
  finalCanvas,    \* step 4
  href,           \* step 5: the data URL handed to the download link
  clicks,         \* step 5: link.click() calls of this invocation
  errors          \* console.error calls of this invocation (catch block)

vars ==
  <<imageFile, editorState, pc, params, scaledCanvas, slices, verticalCanvas,
    transform, loaded, finalCanvas, href, clicks, errors>>

invocation ==
  <<pc, params, scaledCanvas, slices, verticalCanvas, transform, loaded,
    finalCanvas, href, clicks, errors>>

Files ==
  {[decodes |-> FALSE, w |-> 0, h |-> 0]} \cup
  {[decodes |-> TRUE, w |-> w, h |-> MaxH] : w \in 1 .. MaxW}

NoURL == [empty |-> TRUE, w |-> -1, h |-> -1, px |-> [c \in {} |-> White]]

\* useState({scale: 6, numSplits: 1, horizontalRepeat: 1})
Init ==
  /\ imageFile \in Files
  /\ editorState =
       [scale |-> 6 * Unit, numSplits |-> 1 * Unit, horizontalRepeat |-> 1 * Unit]
  /\ pc = "idle"
  /\ params = editorState
  /\ scaledCanvas = NoCanvas
  /\ slices = <<>>
  /\ verticalCanvas = NoCanvas
  /\ transform = Identity
  /\ loaded = {}
  /\ finalCanvas = NoCanvas
  /\ href = NoURL
  /\ clicks = 0
  /\ errors = 0

\* ---------------------------------------------------------------- actions
\* onChange of one of the three inputs
handleInputChange(id, value) ==
  /\ editorState' = [editorState EXCEPT ![id] = Clamp(parseFloat(value))]
  /\ UNCHANGED <<imageFile, invocation>>

\* the Download button: processAndDownload up to its first await.  The model
\* follows one invocation at a time; each works on its own closure variables.
processAndDownload ==
  /\ pc \in {"idle", "resolved"}
  /\ pc' = "awaitImg"
  /\ params' = editorState
  /\ scaledCanvas' = NoCanvas
  /\ slices' = <<>>
  /\ verticalCanvas' = NoCanvas
  /\ transform' = Identity
  /\ loaded' = {}
  /\ finalCanvas' = NoCanvas
  /\ href' = NoURL
  /\ clicks' = 0
  /\ errors' = 0
  /\ UNCHANGED <<imageFile, editorState>>

img == SourceImage(imageFile.w, imageFile.h)

\* const scaledWidth = img.width * scale (fixed point, not truncated)
ScaledWidth == img.w * params.scale
\* const sliceWidth = Math.floor(scaledWidth / numSplits) (an integer)
SliceWidthOf(scaledWidth, numSplits) == scaledWidth \div numSplits
sliceWidth == SliceWidthOf(ScaledWidth, params.numSplits)

\* steps 1 and 2 for the slice with loop index i
SliceCanvas(scaled, i) ==
  drawImage9(createCanvas(sliceWidth * Unit, img.h * Unit, TRUE), scaled,
             i * sliceWidth, sliceWidth, img.h)

\* the loop indices 0 <= i < numSplits, in order
LoopIndices(n) == [k \in 1 .. Ceil(n) |-> k - 1]

\* img.onload up to "await Promise.all": steps 1-3.  scaledCtx, sliceCtx[i]
\* and verticalCtx say which getContext("2d") calls returned a context.
imgOnload(scaledCtx, sliceCtx, verticalCtx) ==
  /\ pc = "awaitImg"
  /\ imageFile.decodes
  /\ LET scaled0 == createCanvas(ScaledWidth, img.h * Unit, scaledCtx)
         scaled == drawImage5(scaled0, img, ScaledWidth)
         made == SelectSeq(LoopIndices(params.numSplits),
                           LAMBDA i : sliceCtx[i])
         \* drawImage throws InvalidStateError for a source canvas without
         \* pixels: the async callback rejects and nothing after it runs
         throws == Len(made) > 0 /\ HasNoPixels(scaled)
         pushed == [k \in 1 .. Len(made) |->
                      toDataURL(SliceCanvas(scaled, made[k]))]
         totalHeight == img.h * Len(pushed)
     IN  IF ~scaledCtx
         THEN /\ pc' = "returned"
              /\ scaledCanvas' = scaled0
              /\ UNCHANGED <<slices, verticalCanvas>>
         ELSE IF throws
         THEN /\ pc' = "returned"
              /\ scaledCanvas' = scaled
              /\ UNCHANGED <<slices, verticalCanvas>>
         ELSE /\ scaledCanvas' = scaled
              /\ slices' = pushed
              /\ verticalCanvas' =
                   createCanvas(sliceWidth * Unit, totalHeight * Unit, verticalCtx)
              /\ pc' = IF verticalCtx THEN "awaitSlices" ELSE "returned"
  /\ UNCHANGED <<imageFile, editorState, params, transform, loaded,
                 finalCanvas, href, clicks, errors>>

\* sliceImg.onload of slices[k] (index i = k - 1); an image whose src is
\* "data:," never loads
sliceOnload(k) ==
  /\ pc = "awaitSlices"
  /\ k \in 1 .. Len(slices)
  /\ k \notin loaded
  /\ ~slices[k].empty
  /\ LET i == k - 1
         saved == transform
         flipped == scaleFlip(translate(saved, (i + 1) * img.h))
     IN  /\ verticalCanvas' =
              IF i % 2 = 1
              THEN drawImage3(verticalCanvas, slices[k], flipped, 0, 0)
              ELSE drawImage3(verticalCanvas, slices[k], saved, 0, i * img.h)
         /\ transform' = saved
  /\ loaded' = loaded \cup {k}
  /\ UNCHANGED <<imageFile, editorState, pc, params, scaledCanvas, slices,
                 finalCanvas, href, clicks, errors>>

\* a wait that ends with the first slice callback
AnyLoaded == loaded # {} \/ slices = <<>>

\* Promise.all over the slices: every per-slice promise has resolved
AllLoaded == loaded = 1 .. Len(slices)

\* the vertical canvas tiled count times onto dst
RECURSIVE Tiled(_, _, _)
Tiled(dst, src, count) ==
  IF count = 0 THEN dst
  ELSE drawImage3(Tiled(dst, src, count - 1), src, Identity,
                  (count - 1) * sliceWidth, 0)

\* the continuation of "await Promise.all": steps 4 and 5
afterPromiseAll(finalCtx) ==
  /\ pc = "awaitSlices"
  /\ AllLoaded
  /\ LET totalHeight == img.h * Len(slices)
         final0 == createCanvas(sliceWidth * params.horizontalRepeat,
                                totalHeight * Unit, finalCtx)
         throws == HasNoPixels(verticalCanvas)
     IN  IF ~finalCtx \/ throws
         THEN /\ pc' = "returned"
              /\ finalCanvas' = final0
              /\ UNCHANGED <<href, clicks>>
         ELSE /\ finalCanvas' =
                   Tiled(final0, verticalCanvas, Ceil(params.horizontalRepeat))
              /\ href' = toDataURL(finalCanvas')
              /\ clicks' = clicks + 1
              /\ pc' = "resolved"
  /\ UNCHANGED <<imageFile, editorState, params, scaledCanvas, slices,
                 verticalCanvas, transform, loaded, errors>>

Next ==
  \/ \E id \in Ids, value \in InputValues : handleInputChange(id, value)
  \/ processAndDownload
  \/ \E scaledCtx \in BOOLEAN, verticalCtx \in BOOLEAN,
        sliceCtx \in [0 .. Ceil(params.numSplits) - 1 -> BOOLEAN] :
        imgOnload(scaledCtx, sliceCtx, verticalCtx)
  \/ \E k \in 1 .. Len(slices) : sliceOnload(k)
  \/ \E finalCtx \in BOOLEAN : afterPromiseAll(finalCtx)

Spec == Init /\ [][Next]_vars

\* ------------------------------------------------------- claim vocabulary
InvocationStep ==
  \/ \E scaledCtx \in BOOLEAN, verticalCtx \in BOOLEAN,
        sliceCtx \in [0 .. Ceil(params.numSplits) - 1 -> BOOLEAN] :
        imgOnload(scaledCtx, sliceCtx, verticalCtx)
  \/ \E k \in 1 .. Len(slices) : sliceOnload(k)
  \/ \E finalCtx \in BOOLEAN : afterPromiseAll(finalCtx)

IsInteger(t) == t % Unit = 0

Emitted == clicks > 0
Reported == errors > 0
SlicerRan == pc \in {"awaitSlices", "resolved"}

\* the EditorParameters model: scale a positive real, the two counts
\* integers >= 1
ValidParams(p) ==
  /\ p.scale > 0
  /\ IsInteger(p.numSplits) /\ p.numSplits >= Unit
  /\ IsInteger(p.horizontalRepeat) /\ p.horizontalRepeat >= Unit

\* composite row on which row r of slice i belongs: in order for an even
\* slice, reversed for an odd one
CompositeRow(i, r) ==
  IF i % 2 = 1 THEN (i + 1) * img.h - 1 - r ELSE i * img.h + r

\* the rows [i * sliceHeight, (i+1) * sliceHeight) of the composite hold
\* the bitmap s, mirrored when i is odd
HoldsSlice(composite, i, s) ==
  /\ (i + 1) * img.h <= composite.h
  /\ s.w = composite.w /\ s.h = img.h
  /\ \A c \in Cells(s.w, s.h) :
       composite.px[<<c[1], CompositeRow(i, c[2])>>] = s.px[c]

\* the pipeline as a function of (source, params) alone: every slice of the
\* loop 0 <= i < numSplits, merged in index order, then repeated
RECURSIVE RefVertical(_, _)
RefVertical(scaled, n) ==
  IF n = 0
  THEN createCanvas(sliceWidth * Unit,
                    img.h * Ceil(params.numSplits) * Unit, TRUE)
  ELSE LET i == n - 1
           s == SliceCanvas(scaled, i)
       IN  IF i % 2 = 1
           THEN drawImage3(RefVertical(scaled, i), s,
                           scaleFlip(translate(Identity, (i + 1) * img.h)), 0, 0)
           ELSE drawImage3(RefVertical(scaled, i), s, Identity, 0, i * img.h)

RefOutput ==
  LET scaled == drawImage5(createCanvas(ScaledWidth, img.h * Unit, TRUE), img,
                           ScaledWidth)
      vertical == RefVertical(scaled, Ceil(params.numSplits))
      final0 == createCanvas(sliceWidth * params.horizontalRepeat,
                             vertical.h * Unit, TRUE)
  IN  toDataURL(Tiled(final0, vertical, Ceil(params.horizontalRepeat)))

\* ----------------------------------------------------------------- claims
\* C1: for a valid parameter triple the emitted image is
\* floor(floor(W * scale) / numSplits) * horizontalRepeat wide and exactly
\* H * numSplits high.
C1_OutputSize ==
  (Emitted /\ ValidParams(params)) =>
    /\ href.w = (Floor(img.w * params.scale) \div Floor(params.numSplits))
                  * Floor(params.horizontalRepeat)
    /\ href.h = img.h * Floor(params.numSplits)

\* C2: in the finished vertical composite, every slice index i in
\* [0, numSplits) has the rows [i * sliceHeight, (i+1) * sliceHeight), which
\* hold the Slicer's slice i, in order when i is even and reversed when odd.
C2_Alternation ==
  pc = "resolved" =>
    \A i \in 0 .. Ceil(params.numSplits) - 1 :
      HoldsSlice(verticalCanvas, i, SliceCanvas(scaledCanvas, i))

\* C3: the Slicer produces exactly numSplits slices of width
\* floor(scaledWidth / numSplits) and full height, slice i holding exactly
\* the scaled-image columns [i * sliceWidth, (i+1) * sliceWidth).
C3_Slicer ==
  SlicerRan =>
    /\ Len(slices) * Unit = params.numSplits
    /\ \A k \in 1 .. Len(slices) :
         IF sliceWidth = 0 THEN slices[k].empty
         ELSE /\ slices[k].w = sliceWidth /\ slices[k].h = img.h
              /\ \A c \in Cells(slices[k].w, slices[k].h) :
                   /\ (k - 1) * sliceWidth + c[1] < scaledCanvas.w
                   /\ slices[k].px[c] =
                        scaledCanvas.px[<<(k - 1) * sliceWidth + c[1], c[2]>>]

\* C4: when numSplits exceeds the scaled width, the invocation reports an
\* InvalidParameter error and creates no zero-width image buffer.
C4_InvalidParameter ==
  (pc \notin {"idle", "awaitImg"} /\ params.numSplits > ScaledWidth) =>
    /\ Reported
    /\ ~Emitted
    /\ verticalCanvas.w # 0 /\ finalCanvas.w # 0
    /\ \A k \in 1 .. Len(slices) : ~slices[k].empty

\* C5: all or nothing: an emitted image was composed from all numSplits
\* slices, each fully drawn; an invocation whose stage could not produce its
\* result emits nothing and reports a failure.
C5_AllOrNothing ==
  /\ Emitted =>
       /\ Len(slices) = Ceil(params.numSplits)
       /\ \A i \in 0 .. Ceil(params.numSplits) - 1 :
            HoldsSlice(verticalCanvas, i, SliceCanvas(scaledCanvas, i))
  /\ pc = "returned" => (Reported /\ ~Emitted)

\* C6: the emitted output is a function of (source, params) alone, whatever
\* the order of the slice callbacks; each slice callback changes only its own
\* rows of the vertical composite and leaves the transform as it found it.
C6_Deterministic ==
  [][/\ clicks' > clicks => href' = RefOutput
     /\ \A k \in 1 .. Len(slices) :
          (k \notin loaded /\ loaded' = loaded \cup {k}) =>
            /\ transform' = transform
            /\ \A c \in Cells(verticalCanvas.w, verticalCanvas.h) :
                 c[2] \notin (k - 1) * img.h .. k * img.h - 1 =>
                   verticalCanvas'.px[c] = verticalCanvas.px[c]]_vars

\* C7: an input-change event whose value is <= 0 or parses to NaN sets the
\* targeted parameter to exactly 1.
C7_ClampLaw ==
  [][\A id \in Ids, value \in InputValues :
       (/\ handleInputChange(id, value)
        /\ (parseFloat(value).nan \/ parseFloat(value).val <= 0))
       => editorState'[id] = 1 * Unit]_vars

\* the scale starts at 6 and no input text reads 1: a scale of 1 was clamped
C7_Witness == editorState.scale = 1 * Unit

\* C8: in every reachable state numSplits and horizontalRepeat are integers
\* >= 1 and scale is positive.
C8_ParametersValid == ValidParams(editorState)

\* C9: a started invocation that has no step left has finished with exactly
\* one outcome: an emitted image or a reported failure.
C9_Terminates ==
  (pc # "idle" /\ ~ENABLED InvocationStep) =>
    ((Emitted \/ Reported) /\ ~(Emitted /\ Reported))

\* C10: the stages run in the order scale, slice, vertical merge, horizontal
\* repeat, download: the repeat and the download start only after every slice
\* was drawn onto the vertical composite, and an invocation downloads at most
\* once.
C10_StageOrder ==
  /\ clicks <= 1
  /\ (slices # <<>> \/ verticalCanvas # NoCanvas) => scaledCanvas # NoCanvas
  /\ loaded # {} => verticalCanvas # NoCanvas
  /\ finalCanvas # NoCanvas =>
       /\ verticalCanvas # NoCanvas
       /\ loaded = 1 .. Len(slices)
       /\ \A k \in 1 .. Len(slices) : HoldsSlice(verticalCanvas, k - 1, slices[k])
  /\ Emitted => (finalCanvas # NoCanvas /\ href = toDataURL(finalCanvas))

C10_Witness == Emitted /\ Len(slices) >= 2

====
